---- MODULE Spec2Model ----
(***************************************************************************)
(* chatGenerateContent (aix.router.ts): the pipeline that builds a         *)
(* dispatch, connects to the AI service, reads the response (whole body or *)
(* chunk by chunk), hands wire messages to the dispatch parser and frames  *)
(* the output sequence with the intake handler's start / termination /     *)
(* error events.                                                           *)
(*                                                                         *)
(* The generator's output sequence is `out`: it holds exactly what the     *)
(* generator body yields.  IntakeHandler, PartTransmitter and the dispatch *)
(* parser are imported by the router and are not part of the file; they    *)
(* are modelled from their specified contracts.                            *)
(***************************************************************************)
EXTENDS Integers, Sequences, FiniteSets

\* ----------------------------------------------------------------- bounds
MaxReads == 2      \* chunk reads that may deliver data before the stream ends
MaxBatch == 2      \* wire messages the demuxer yields for one chunk
MaxCalls == 3      \* lifecycle calls made on one IntakeHandler (SpecIntake)

VARIABLES
  pc,                \* position of the generator body
  streaming,         \* input.streaming
  debugRequested,    \* connectionOptions.debugDispatchRequestbody && NODE_ENV === 'development'
  access,            \* input.access: [dialect, oaiHost]
  aborted,           \* ctx.reqSignal.aborted
  cancelledAt,       \* where the generator stood when the signal was cancelled ("none" before)
  dispatch,          \* "unset" | "built" | "failed"   (createChatGenerateDispatch)
  fetchResult,       \* "none" | "ok" | a member of FetchFailures
  bodyResult,        \* "none" | "ok" | "fail"         (dispatchResponse.text())
  lastRead,          \* "none" | "chunk" | "done" | a member of ReadErrorNames
  chunkReads,        \* number of dispatchReader.read() calls
  abortedAtRead,     \* whether the signal was cancelled when the last read() settled
  batch,             \* demuxed items of the current chunk not yet taken by the for loop
  demuxedItem,       \* the for loop's current item (NoItem before the first)
  parseCalls,        \* number of calls of the dispatch parser
  parseResult,       \* "none" | "ok" | "fail": outcome of the last parser call
  parsedOk,          \* number of parser calls that returned without throwing
  transmitted,       \* operations the parser handed to the PartTransmitter
  out,               \* the output sequence: everything the generator yielded
  intakeTerminated,  \* IntakeHandler.intakeTerminated
  startEmitted,      \* IntakeHandler: start event produced
  sharedLog,         \* error stages mirrored to the operational log
  defects,           \* lifecycle calls refused because the intake was already terminated
  anomalies,         \* 'Received event after termination' warnings
  calls              \* SpecIntake: the lifecycle calls made so far

vars == << pc, streaming, debugRequested, access, aborted, cancelledAt, dispatch, fetchResult,
           bodyResult, lastRead, chunkReads, abortedAtRead, batch, demuxedItem, parseCalls,
           parseResult, parsedOk, transmitted, out, intakeTerminated, startEmitted,
           sharedLog, defects, anomalies, calls >>

\* ------------------------------------------------------------ vocabulary
TerminationCauses == {"dispatch-close", "event-done", "client-abort"}
ErrorStages == {"dispatch-prepare", "dispatch-fetch", "dispatch-read", "dispatch-parse"}

\* Output events: t is the kind, a the cause / stage / operation.
Ev(t, a) == [t |-> t, a |-> a]
StartEv == Ev("start", "")
DebugEv == Ev("debug", "")
OpEv(op) == Ev("op", op)
TermEv(cause) == Ev("termination", cause)
ErrEv(stage) == Ev("error", stage)

IsTerminal(e) == e.t \in {"termination", "error"}
Last(s) == s[Len(s)]
Count(s, P(_)) == Cardinality({i \in DOMAIN s : P(s[i])})
IsStart(e) == e.t = "start"
IsError(e) == e.t = "error"
IsTermination(e) == e.t = "termination"
IsOp(e) == e.t = "op"
IsDebug(e) == e.t = "debug"

\* The operations of the output sequence, in order.
OpsOf(s) == [i \in DOMAIN SelectSeq(s, IsOp) |-> SelectSeq(s, IsOp)[i].a]

\* Wire messages produced by the demuxer.
EventItem(data) == [type |-> "event", data |-> data]
CommentItem == [type |-> "comment", data |-> ""]
NoItem == [type |-> "none", data |-> ""]
Payloads == {"[DONE]", "Hi", "partial", "bad"}
WireMessages == {EventItem(d) : d \in Payloads} \cup {CommentItem}
Batches == UNION {[1..n -> WireMessages] : n \in 0..MaxBatch}

Accesses == { [dialect |-> "openai", oaiHost |-> ""],
              [dialect |-> "openai", oaiHost |-> "custom"],
              [dialect |-> "anthropic", oaiHost |-> ""] }

FetchFailures == {"network", "timeout", "aborted"}
ReadErrorNames == {"ResponseAborted", "AbortError", "TypeError"}

\* ------------------------------------------------------ dispatch parser
\* chatGenerateParse(partTransmitter, data): the operations it hands to the
\* transmitter before returning or throwing, and whether it throws.
ParseOps(data) ==
  CASE data = "Hi" -> << "Hi" >>
    [] data = "partial" -> << "Hi" >>
    [] OTHER -> << >>

ParseThrows(data) == data \in {"partial", "bad", "[DONE]"}

\* ------------------------------------------------------- IntakeHandler
yieldStart ==
  /\ out' = Append(out, StartEv)
  /\ startEmitted' = TRUE
  /\ UNCHANGED << intakeTerminated, sharedLog, defects >>

markTermination ==
  /\ intakeTerminated' = TRUE
  /\ UNCHANGED << out, startEmitted, sharedLog, defects >>

yieldTermination(cause) ==
  /\ out' = IF intakeTerminated THEN out ELSE Append(out, TermEv(cause))
  /\ defects' = IF intakeTerminated THEN defects + 1 ELSE defects
  /\ intakeTerminated' = TRUE
  /\ UNCHANGED << startEmitted, sharedLog >>

\* Variant: yieldError without the already-terminated guard.
yieldError_Unguarded(stage, visibleToSharedLog) ==
  /\ out' = Append(out, ErrEv(stage))
  /\ defects' = defects
  /\ sharedLog' = IF visibleToSharedLog THEN Append(sharedLog, stage) ELSE sharedLog
  /\ intakeTerminated' = TRUE
  /\ UNCHANGED startEmitted

yieldError(stage, visibleToSharedLog) ==
  /\ out' = IF intakeTerminated THEN out ELSE Append(out, ErrEv(stage))
  /\ defects' = IF intakeTerminated THEN defects + 1 ELSE defects
  /\ sharedLog' = IF ~intakeTerminated /\ visibleToSharedLog
                    THEN Append(sharedLog, stage) ELSE sharedLog
  /\ intakeTerminated' = TRUE
  /\ UNCHANGED startEmitted

\* onReceivedWireMessage: observability only, changes no state.
intakeUnchanged == UNCHANGED << out, intakeTerminated, startEmitted, sharedLog, defects >>

\* ------------------------------------------------------------------ Init
Init ==
  /\ pc = "Start"
  /\ streaming \in BOOLEAN
  /\ debugRequested \in BOOLEAN
  /\ access \in Accesses
  /\ aborted = FALSE
  /\ cancelledAt = "none"
  /\ dispatch = "unset"
  /\ fetchResult = "none"
  /\ bodyResult = "none"
  /\ lastRead = "none"
  /\ chunkReads = 0
  /\ abortedAtRead = FALSE
  /\ batch = << >>
  /\ demuxedItem = NoItem
  /\ parseCalls = 0
  /\ parseResult = "none"
  /\ parsedOk = 0
  /\ transmitted = << >>
  /\ out = << >>
  /\ intakeTerminated = FALSE
  /\ startEmitted = FALSE
  /\ sharedLog = << >>
  /\ defects = 0
  /\ anomalies = 0
  /\ calls = << >>

inputsUnchanged == UNCHANGED << streaming, debugRequested, access >>
parserUnchanged == UNCHANGED << parseCalls, parseResult, parsedOk, transmitted >>

\* Variant: the loop condition tests the flag the wrong way round.
LoopCheck_Inverted(terminated) == IF terminated THEN "PumpRead" ELSE "Done"

\* Variant: a loop condition that ignores the terminated flag.
LoopCheck_Forever(terminated) == "PumpRead"

\* while (!intakeHandler.intakeTerminated): where the pump goes after a batch.
LoopCheck(terminated) == IF terminated THEN "Done" ELSE "PumpRead"

\* The caller cancels: ctx.reqSignal becomes aborted.
Cancel ==
  /\ ~aborted
  /\ aborted' = TRUE
  /\ cancelledAt' = pc
  /\ UNCHANGED << pc, streaming, debugRequested, access, dispatch, fetchResult,
                  bodyResult, lastRead, chunkReads, abortedAtRead, batch, demuxedItem, parseCalls,
                  parseResult, parsedOk, transmitted, out, intakeTerminated, startEmitted,
                  sharedLog, defects, anomalies, calls >>

\* yield* intakeHandler.yieldStart()
Start ==
  /\ pc = "Start"
  /\ yieldStart
  /\ pc' = "Preparing"
  /\ inputsUnchanged /\ parserUnchanged
  /\ UNCHANGED << aborted, cancelledAt, dispatch, fetchResult, bodyResult, lastRead, chunkReads,
                  abortedAtRead, batch, demuxedItem, anomalies, calls >>

\* ---------------------------------------------------- prepare the dispatch
\* createChatGenerateDispatch returned; the debug print is yielded on request.
PrepareOk ==
  /\ dispatch' = "built"
  /\ out' = IF debugRequested THEN Append(out, DebugEv) ELSE out
  /\ UNCHANGED << intakeTerminated, startEmitted, sharedLog, defects >>
  /\ pc' = "Connecting"

\* Variant: the prepare failure is reported but the handler does not return.
PrepareFailed_NoReturn ==
  /\ dispatch' = "failed"
  /\ yieldError("dispatch-prepare", FALSE)
  /\ pc' = "Connecting"

\* createChatGenerateDispatch threw.
PrepareFailed ==
  /\ dispatch' = "failed"
  /\ yieldError("dispatch-prepare", FALSE)
  /\ pc' = "Done"

Prepare ==
  /\ pc = "Preparing"
  /\ \E built \in BOOLEAN : IF built THEN PrepareOk ELSE PrepareFailed
  /\ inputsUnchanged /\ parserUnchanged
  /\ UNCHANGED << aborted, cancelledAt, fetchResult, bodyResult, lastRead, chunkReads,
                  abortedAtRead, batch, demuxedItem, anomalies, calls >>

\* ---------------------------------------------------- connect to the dispatch
\* Variant: the custom host is not looked at.
showOnConsoleForNonCustomServers_DialectOnly == access.dialect # "openai"

showOnConsoleForNonCustomServers == access.dialect # "openai" \/ access.oaiHost = ""

\* What fetchResponseOrTRPCThrow can do under the caller's signal.
FetchOutcomes == IF aborted THEN {"aborted"} ELSE {"ok", "network", "timeout"}

ConnectOk ==
  /\ fetchResult' = "ok"
  /\ intakeUnchanged
  /\ pc' = IF streaming THEN "PumpRead" ELSE "NonStreamingRead"

\* Variant: an aborted connect treated like an aborted chunk read (silently).
ConnectFailed_SilentAbort(why) ==
  /\ fetchResult' = why
  /\ IF why = "aborted" THEN markTermination
     ELSE yieldError("dispatch-fetch", showOnConsoleForNonCustomServers)
  /\ pc' = "Done"

\* Variant: the connect failure is reported but the handler does not return.
ConnectFailed_NoReturn(why) ==
  /\ fetchResult' = why
  /\ yieldError("dispatch-fetch", showOnConsoleForNonCustomServers)
  /\ pc' = IF streaming THEN "PumpRead" ELSE "NonStreamingRead"

ConnectFailed(why) ==
  /\ fetchResult' = why
  /\ yieldError("dispatch-fetch", showOnConsoleForNonCustomServers)
  /\ pc' = "Done"

Connect ==
  /\ pc = "Connecting"
  /\ \E result \in FetchOutcomes : IF result = "ok" THEN ConnectOk ELSE ConnectFailed(result)
  /\ inputsUnchanged /\ parserUnchanged
  /\ UNCHANGED << aborted, cancelledAt, dispatch, bodyResult, lastRead, chunkReads,
                  abortedAtRead, batch, demuxedItem, anomalies, calls >>

\* ---------------------------------------------------- non-streaming
\* Variant: the read failure is reported but the handler goes on to the parser.
NonStreamingReadFailed_NoReturn ==
  /\ bodyResult' = "fail"
  /\ yieldError("dispatch-read", FALSE)
  /\ parseCalls' = parseCalls + 1
  /\ parseResult' = "fail"
  /\ parsedOk' = parsedOk
  /\ transmitted' = transmitted
  /\ pc' = "Done"

\* dispatchResponse.text() rejected.
NonStreamingReadFailed ==
  /\ bodyResult' = "fail"
  /\ yieldError("dispatch-read", FALSE)
  /\ parserUnchanged
  /\ pc' = "Done"

\* The body was read; the parser is called once on the whole body.
NonStreamingParse(body) ==
  /\ bodyResult' = "ok"
  /\ parseCalls' = parseCalls + 1
  /\ transmitted' = transmitted \o ParseOps(body)
  /\ parseResult' = IF ParseThrows(body) THEN "fail" ELSE "ok"
  /\ parsedOk' = IF ParseThrows(body) THEN parsedOk ELSE parsedOk + 1
  /\ IF ParseThrows(body) THEN yieldError("dispatch-parse", TRUE) ELSE intakeUnchanged
  /\ pc' = "Done"

NonStreaming ==
  /\ pc = "NonStreamingRead"
  /\ \/ NonStreamingReadFailed
     \/ /\ ~aborted
        /\ \E body \in Payloads : NonStreamingParse(body)
  /\ inputsUnchanged
  /\ UNCHANGED << aborted, cancelledAt, dispatch, fetchResult, lastRead, chunkReads,
                  abortedAtRead, batch, demuxedItem, anomalies, calls >>

\* ---------------------------------------------------- streaming pump: read
\* Variant: the stream's closure ends the pump without a termination event.
ReadDone_Silent ==
  /\ lastRead' = "done"
  /\ markTermination
  /\ batch' = batch
  /\ pc' = "Done"

\* read() resolved with done.
ReadDone ==
  /\ lastRead' = "done"
  /\ yieldTermination("dispatch-close")
  /\ batch' = batch
  /\ pc' = "Done"

\* Variant: every read failure is reported, the caller's abort too.
ReadFailed_AlwaysError(name) ==
  /\ lastRead' = name
  /\ yieldError("dispatch-read", FALSE)
  /\ batch' = batch
  /\ pc' = "Done"

\* Variant: the read failure is reported under the connect stage.
ReadFailed_WrongStage(name) ==
  /\ lastRead' = name
  /\ IF name = "ResponseAborted" THEN markTermination ELSE yieldError("dispatch-fetch", FALSE)
  /\ batch' = batch
  /\ pc' = "Done"

\* Variant: the catch looks at the caller's signal instead of the error's name.
ReadFailed_SilentWhenCancelled(name) ==
  /\ lastRead' = name
  /\ IF aborted THEN markTermination ELSE yieldError("dispatch-read", FALSE)
  /\ batch' = batch
  /\ pc' = "Done"

\* Variant: the caller's abort is reported as termination(client-abort).
ReadFailed_ClientAbort(name) ==
  /\ lastRead' = name
  /\ IF name = "ResponseAborted" THEN yieldTermination("client-abort")
     ELSE yieldError("dispatch-read", FALSE)
  /\ batch' = batch
  /\ pc' = "Done"

\* read() rejected with an error of this name.
ReadFailed(name) ==
  /\ lastRead' = name
  /\ IF name = "ResponseAborted" THEN markTermination ELSE yieldError("dispatch-read", FALSE)
  /\ batch' = batch
  /\ pc' = "Done"

\* read() resolved with a chunk; items is what the demuxer makes of its decoded text.
ReadChunk(items) ==
  /\ lastRead' = "chunk"
  /\ intakeUnchanged
  /\ batch' = items
  /\ pc' = IF items = << >> THEN LoopCheck(intakeTerminated) ELSE "PumpBatch"

\* How a read can fail: with the abort reason once the signal is cancelled
\* (its name depends on the runtime), with a transport error at any time.
ReadFailures == IF aborted THEN ReadErrorNames ELSE {"TypeError"}

PumpRead ==
  /\ pc = "PumpRead"
  /\ chunkReads' = chunkReads + 1
  /\ abortedAtRead' = aborted
  /\ \/ \E name \in ReadFailures : ReadFailed(name)
     \/ /\ ~aborted
        /\ ReadDone
     \/ /\ ~aborted
        /\ chunkReads < MaxReads
        /\ \E items \in Batches : ReadChunk(items)
  /\ inputsUnchanged /\ parserUnchanged
  /\ UNCHANGED << aborted, cancelledAt, dispatch, fetchResult, bodyResult, demuxedItem,
                  anomalies, calls >>

\* ---------------------------------------------------- streaming pump: batch
\* Where the for loop goes after an item that does not break out of it.
Continue(rest) == IF rest = << >> THEN LoopCheck(intakeTerminated) ELSE "PumpBatch"

\* intakeTerminated was already set: warn and break.
ItemAfterTermination ==
  /\ anomalies' = anomalies + 1
  /\ intakeUnchanged /\ parserUnchanged
  /\ pc' = LoopCheck(intakeTerminated)

\* Variant: the for loop looks at the caller's signal and stops on cancellation.
ItemIgnored_AbortCheck(rest) ==
  /\ IF aborted THEN markTermination ELSE intakeUnchanged
  /\ parserUnchanged
  /\ UNCHANGED anomalies
  /\ pc' = IF aborted THEN "Done" ELSE Continue(rest)

\* Not an event: continue.
ItemIgnored(rest) ==
  /\ intakeUnchanged /\ parserUnchanged
  /\ UNCHANGED anomalies
  /\ pc' = Continue(rest)

\* Variant: the termination is yielded but the for loop is not left.
ItemSentinel_NoBreak ==
  /\ yieldTermination("event-done")
  /\ parserUnchanged
  /\ UNCHANGED anomalies
  /\ pc' = IF batch' = << >> THEN LoopCheck(intakeTerminated') ELSE "PumpBatch"

\* The [DONE] marker: yield the termination and break.
ItemSentinel ==
  /\ yieldTermination("event-done")
  /\ parserUnchanged
  /\ UNCHANGED anomalies
  /\ pc' = LoopCheck(intakeTerminated')

\* Variant: the parse failure is reported but the for loop is not left.
ItemParsed_NoBreak(data, rest) ==
  /\ parseCalls' = parseCalls + 1
  /\ transmitted' = transmitted \o ParseOps(data)
  /\ parseResult' = IF ParseThrows(data) THEN "fail" ELSE "ok"
  /\ parsedOk' = IF ParseThrows(data) THEN parsedOk ELSE parsedOk + 1
  /\ UNCHANGED anomalies
  /\ IF ParseThrows(data) THEN yieldError("dispatch-parse", TRUE) ELSE intakeUnchanged
  /\ pc' = IF rest = << >> THEN LoopCheck(intakeTerminated') ELSE "PumpBatch"

\* Any other event goes to the dispatch parser; a throw yields the error and breaks.
ItemParsed(data, rest) ==
  /\ parseCalls' = parseCalls + 1
  /\ transmitted' = transmitted \o ParseOps(data)
  /\ parseResult' = IF ParseThrows(data) THEN "fail" ELSE "ok"
  /\ parsedOk' = IF ParseThrows(data) THEN parsedOk ELSE parsedOk + 1
  /\ UNCHANGED anomalies
  /\ IF ParseThrows(data)
       THEN /\ yieldError("dispatch-parse", TRUE)
            /\ pc' = LoopCheck(intakeTerminated')
       ELSE /\ intakeUnchanged
            /\ pc' = Continue(rest)

PumpItem ==
  /\ pc = "PumpBatch"
  /\ batch # << >>
  /\ demuxedItem' = Head(batch)
  /\ batch' = Tail(batch)
  /\ IF intakeTerminated THEN ItemAfterTermination
     ELSE IF Head(batch).type # "event" THEN ItemIgnored(Tail(batch))
     ELSE IF Head(batch).data = "[DONE]" THEN ItemSentinel
     ELSE ItemParsed(Head(batch).data, Tail(batch))
  /\ inputsUnchanged
  /\ UNCHANGED << aborted, cancelledAt, dispatch, fetchResult, bodyResult, lastRead, chunkReads,
                  abortedAtRead, calls >>

Next == Cancel \/ Start \/ Prepare \/ Connect \/ NonStreaming \/ PumpRead \/ PumpItem

Spec == Init /\ [][Next]_vars

\* Every suspension point (the consumer's pull after a yield, the outbound
\* call, the body read, each chunk read) eventually returns, and the
\* synchronous batch loop runs on.
SpecLive ==
  /\ Init /\ [][Next]_vars
  /\ WF_vars(Start) /\ WF_vars(Prepare) /\ WF_vars(Connect)
  /\ WF_vars(NonStreaming) /\ WF_vars(PumpRead) /\ WF_vars(PumpItem)

\* ---------------------------------------------------- the IntakeHandler alone
\* A constructed IntakeHandler on which any lifecycle method may be called next.
InitIntake ==
  /\ pc = "Intake"
  /\ streaming = TRUE
  /\ debugRequested = FALSE
  /\ access = [dialect |-> "openai", oaiHost |-> ""]
  /\ aborted = FALSE
  /\ cancelledAt = "none"
  /\ dispatch = "unset"
  /\ fetchResult = "none"
  /\ bodyResult = "none"
  /\ lastRead = "none"
  /\ chunkReads = 0
  /\ abortedAtRead = FALSE
  /\ batch = << >>
  /\ demuxedItem = NoItem
  /\ parseCalls = 0
  /\ parseResult = "none"
  /\ parsedOk = 0
  /\ transmitted = << >>
  /\ out = << >>
  /\ intakeTerminated = FALSE
  /\ startEmitted = FALSE
  /\ sharedLog = << >>
  /\ defects = 0
  /\ anomalies = 0
  /\ calls = << >>

restUnchanged ==
  /\ inputsUnchanged /\ parserUnchanged
  /\ UNCHANGED << pc, aborted, cancelledAt, dispatch, fetchResult, bodyResult, lastRead, chunkReads,
                  abortedAtRead, batch, demuxedItem, anomalies >>

CallYieldStart ==
  /\ Len(calls) < MaxCalls
  /\ ~startEmitted
  /\ yieldStart
  /\ calls' = Append(calls, "yieldStart")
  /\ restUnchanged

CallYieldTermination ==
  /\ Len(calls) < MaxCalls
  /\ \E cause \in TerminationCauses : yieldTermination(cause)
  /\ calls' = Append(calls, "yieldTermination")
  /\ restUnchanged

CallYieldError ==
  /\ Len(calls) < MaxCalls
  /\ \E stage \in ErrorStages, show \in BOOLEAN : yieldError(stage, show)
  /\ calls' = Append(calls, "yieldError")
  /\ restUnchanged

CallMarkTermination ==
  /\ Len(calls) < MaxCalls
  /\ markTermination
  /\ calls' = Append(calls, "markTermination")
  /\ restUnchanged

NextIntake == CallYieldStart \/ CallYieldTermination \/ CallYieldError \/ CallMarkTermination

SpecIntake == InitIntake /\ [][NextIntake]_vars

\* ======================================================= properties
NotDebug(e) == e.t # "debug"
Terminals(s) == Count(s, IsTerminal)
DebugPrefix == IF debugRequested THEN << StartEv, DebugEv >> ELSE << StartEv >>

\* C1: whenever a run has reached Done, its output starts with the one start
\* event, ends with the one terminal event, and holds no other terminal event.
StartFirstOneTerminalLastAtDone ==
  pc = "Done" =>
    /\ Len(out) >= 2
    /\ out[1] = StartEv
    /\ Count(out, IsStart) = 1
    /\ IsTerminal(Last(out))
    /\ Terminals(out) = 1

\* C2: once the dispatch builder has failed, the output is exactly
\* [start, error(dispatch-prepare)], the run is Done, and no fetch, body read,
\* chunk read or parser call has been made.
DispatchBuildFailureOutput ==
  dispatch = "failed" =>
    /\ out = << StartEv, ErrEv("dispatch-prepare") >>
    /\ pc = "Done"
    /\ fetchResult = "none"
    /\ bodyResult = "none"
    /\ chunkReads = 0
    /\ parseCalls = 0

DispatchBuildFailureReached == dispatch = "failed" /\ pc = "Done" /\ Len(out) = 2

\* C3: once the outbound call has failed (network, timeout or cancelled signal),
\* the run is Done with error(dispatch-fetch) as its only terminal event, last in
\* the output, and no body read, chunk read or parser call has been made.
FetchFailureIsTerminalError ==
  fetchResult \in FetchFailures =>
    /\ pc = "Done"
    /\ Last(out) = ErrEv("dispatch-fetch")
    /\ Terminals(out) = 1
    /\ bodyResult = "none"
    /\ chunkReads = 0
    /\ parseCalls = 0

FetchAbortReported ==
  fetchResult = "aborted" /\ aborted /\ pc = "Done" /\ Last(out) = ErrEv("dispatch-fetch")

\* C4 as stated: non-streaming, connect succeeded, body read failed: the output
\* is exactly [start, error(dispatch-read)] and the parser was not called.
BodyReadFailureExactOutput ==
  (~streaming /\ fetchResult = "ok" /\ bodyResult = "fail") =>
    /\ out = << StartEv, ErrEv("dispatch-read") >>
    /\ parseCalls = 0

\* C4 as amended: in that case the output is start, then the debug print if one
\* was requested in a development deployment, then error(dispatch-read); the
\* parser was not called.
BodyReadFailureOutput ==
  (~streaming /\ fetchResult = "ok" /\ bodyResult = "fail") =>
    /\ out = DebugPrefix \o << ErrEv("dispatch-read") >>
    /\ pc = "Done"
    /\ parseCalls = 0

BodyReadFailureReached ==
  ~streaming /\ fetchResult = "ok" /\ bodyResult = "fail" /\ pc = "Done" /\ debugRequested

\* C5: non-streaming, body read, the one parser call failed: the output ends
\* with error(dispatch-parse), the operations the parser produced before
\* failing are in the output ahead of the error, and with no such operation
\* the output (debug print aside) is [start, error(dispatch-parse)].
ParseFailureKeepsEmittedOperations ==
  (~streaming /\ bodyResult = "ok" /\ parseResult = "fail") =>
    /\ Last(out) = ErrEv("dispatch-parse")
    /\ OpsOf(out) = transmitted
    /\ transmitted = << >> =>
         SelectSeq(out, NotDebug) = << StartEv, ErrEv("dispatch-parse") >>

\* C6: once the for loop has taken a [DONE] event, the run is Done with
\* termination(event-done) as its only terminal event, last in the output:
\* the rest of the batch is never taken and no further chunk is read.
SentinelEndsRun ==
  demuxedItem = EventItem("[DONE]") =>
    /\ pc = "Done"
    /\ Last(out) = TermEv("event-done")
    /\ Terminals(out) = 1
    /\ intakeTerminated
    /\ lastRead = "chunk"

SentinelWithTrailingMessages ==
  /\ demuxedItem = EventItem("[DONE]")
  /\ pc = "Done"
  /\ batch # << >>
  /\ parseCalls > 0

\* C7: once a chunk read has reported the stream's completion, the run is Done
\* with termination(dispatch-close) as its only terminal event, last in the
\* output, and no read follows.
StreamCloseEndsRun ==
  lastRead = "done" =>
    /\ pc = "Done"
    /\ Last(out) = TermEv("dispatch-close")
    /\ Terminals(out) = 1
    /\ intakeTerminated

StreamCloseAfterData ==
  lastRead = "done" /\ pc = "Done" /\ chunkReads >= 2 /\ transmitted # << >>

\* C8 as stated: a chunk read made while the caller's signal is cancelled ends
\* the run silently: terminated flag set, Done, no error or termination event.
CancelledReadEndsSilently ==
  abortedAtRead =>
    /\ intakeTerminated
    /\ pc = "Done"
    /\ Terminals(out) = 0

\* C8 as amended: a chunk read that fails with the ResponseAborted condition
\* ends the run silently: terminated flag set, Done, no error or termination
\* event in the output.
ResponseAbortedEndsSilently ==
  lastRead = "ResponseAborted" =>
    /\ abortedAtRead
    /\ intakeTerminated
    /\ pc = "Done"
    /\ Terminals(out) = 0

ResponseAbortedReached ==
  lastRead = "ResponseAborted" /\ pc = "Done" /\ chunkReads >= 2 /\ parseCalls > 0

\* C9: at Done, the operations the parser handed to the Part Transmitter are
\* the operations of the output sequence, in production order, all of them
\* after start and before the terminal event.
TransmittedOperationsInOutput ==
  pc = "Done" =>
    /\ OpsOf(out) = transmitted
    /\ \A i \in DOMAIN out : IsOp(out[i]) => (1 < i /\ i < Len(out))

\* C10: whatever lifecycle calls are made on an IntakeHandler, the output holds
\* at most one terminal event.
AtMostOneTerminalEvent == Terminals(out) <= 1

RepeatedTerminalCallsRefused == defects >= 2 /\ Terminals(out) = 1

ErrorsOf(s) == SelectSeq(s, IsError)

\* C11: the output never holds more than one error event, and once it holds
\* one the run is Done with that error as its last event: no later stage runs.
AtMostOneErrorStage ==
  /\ Len(ErrorsOf(out)) <= 1
  /\ Len(ErrorsOf(out)) = 1 =>
       /\ pc = "Done"
       /\ Last(out) = ErrorsOf(out)[1]
       /\ ErrorsOf(out)[1].a \in ErrorStages

ParseErrorWithMessagesLeft ==
  /\ streaming /\ pc = "Done"
  /\ Last(out) = ErrEv("dispatch-parse")
  /\ batch # << >>
  /\ chunkReads >= 2

\* C12 as stated: a run with a successful parser call that ends with an error
\* event is a non-streaming run whose parse failed.
PartialSuccessOnlyNonStreaming ==
  (parsedOk > 0 /\ pc = "Done" /\ IsError(Last(out))) =>
    (~streaming /\ parseResult = "fail")

\* C12 as amended: a run with a successful parser call that ends with an error
\* event is a streaming run whose later event failed to parse or whose later
\* read failed; a non-streaming run makes one parser call and never has both.
PartialSuccessOnlyStreaming ==
  /\ (parsedOk > 0 /\ Len(out) > 0 /\ IsError(Last(out))) =>
       /\ streaming
       /\ Last(out).a \in {"dispatch-parse", "dispatch-read"}
       /\ Last(out).a = "dispatch-parse" <=> parseResult = "fail"
  /\ ~streaming => parseCalls <= 1

StreamingPartialSuccessReached ==
  /\ streaming /\ pc = "Done" /\ parsedOk > 0
  /\ Last(out) = ErrEv("dispatch-read")

\* C13: what is mirrored to the operational log depends only on the stage of
\* the emitted error and on the provider: parse errors are mirrored, prepare
\* and read errors are not, a fetch error is mirrored unless the dialect is
\* openai with a custom host set.
SharedLogPolicy ==
  LET customEndpoint == access.dialect = "openai" /\ access.oaiHost # ""
      mirrored(stage) == \/ stage = "dispatch-parse"
                         \/ stage = "dispatch-fetch" /\ ~customEndpoint
  IN  sharedLog = [i \in DOMAIN SelectSeq(ErrorsOf(out), LAMBDA e : mirrored(e.a)) |->
                     SelectSeq(ErrorsOf(out), LAMBDA e : mirrored(e.a))[i].a]

FetchErrorOnCustomHostNotLogged ==
  /\ fetchResult \in FetchFailures
  /\ Last(out) = ErrEv("dispatch-fetch")
  /\ access = [dialect |-> "openai", oaiHost |-> "custom"]
  /\ sharedLog = << >>

\* C14: no step emits a second terminal event; a step that leaves a terminal
\* event in the output leaves the run Done; and once a terminal event is out
\* or the run is Done, no step adds an output event or leaves Done.
DoneIsAbsorbing ==
  [][ /\ Terminals(out') <= 1
      /\ Terminals(out') = 1 => pc' = "Done"
      /\ (Terminals(out) = 1 \/ pc = "Done") => (out' = out /\ pc' = "Done")
    ]_vars

CancelledAfterDone ==
  /\ pc = "Done" /\ cancelledAt = "Done"
  /\ Terminals(out) = 1 /\ IsTerminal(Last(out))

\* C15: once the terminated flag is set, every step leaves it set, makes no
\* parser call, hands nothing to the Part Transmitter and reads no chunk; the
\* step that sets it leaves the pump (the rest of the batch stays untaken).
TerminatedIsFinal ==
  [][ /\ intakeTerminated =>
           /\ intakeTerminated'
           /\ parseCalls' = parseCalls
           /\ transmitted' = transmitted
           /\ chunkReads' = chunkReads
           /\ batch' = batch
      /\ intakeTerminated' => pc' \notin {"PumpRead", "PumpBatch"}
    ]_vars

TerminatedWithMessagesLeft ==
  /\ intakeTerminated /\ pc = "Done" /\ streaming
  /\ batch # << >>
  /\ parseResult = "fail"

\* What taking the head of the batch does, whether or not the signal is cancelled.
BatchStepAsWithoutCancellation ==
  LET item == Head(batch) IN
  /\ demuxedItem' = item
  /\ batch' = Tail(batch)
  /\ chunkReads' = chunkReads
  /\ IF item.type # "event"
       THEN out' = out /\ ~intakeTerminated' /\ parseCalls' = parseCalls
     ELSE IF item.data = "[DONE]"
       THEN /\ out' = Append(out, TermEv("event-done"))
            /\ intakeTerminated' /\ pc' = "Done" /\ parseCalls' = parseCalls
     ELSE /\ parseCalls' = parseCalls + 1
          /\ transmitted' = transmitted \o ParseOps(item.data)
          /\ IF ParseThrows(item.data)
               THEN out' = Append(out, ErrEv("dispatch-parse")) /\ intakeTerminated' /\ pc' = "Done"
               ELSE out' = out /\ ~intakeTerminated'

\* C16 as stated: with the signal cancelled, a batch step does what it does
\* without cancellation, and a chunk read ends the run silently.
CancellationIsCooperativeAndSilent ==
  [][ /\ (pc = "PumpBatch" /\ aborted /\ batch' # batch) => BatchStepAsWithoutCancellation
      /\ (pc = "PumpRead" /\ aborted /\ chunkReads' # chunkReads) =>
           (pc' = "Done" /\ intakeTerminated' /\ out' = out)
    ]_vars

\* C16 as amended: with the signal cancelled, a batch step does what it does
\* without cancellation, and the next chunk read fails and ends the run:
\* silently when the failure is ResponseAborted, with error(dispatch-read)
\* otherwise.
CancellationIsCooperative ==
  [][ /\ (pc = "PumpBatch" /\ aborted /\ batch' # batch) => BatchStepAsWithoutCancellation
      /\ (pc = "PumpRead" /\ aborted /\ chunkReads' # chunkReads) =>
           /\ pc' = "Done" /\ intakeTerminated'
           /\ lastRead' \in ReadErrorNames
           /\ IF lastRead' = "ResponseAborted" THEN out' = out
              ELSE out' = Append(out, ErrEv("dispatch-read"))
    ]_vars

CancelledMidBatchThenSilentEnd ==
  /\ cancelledAt = "PumpBatch"
  /\ parseCalls > 0
  /\ lastRead = "ResponseAborted" /\ pc = "Done"

\* C17: every run eventually reaches Done, its output never grows beyond
\* start, one debug print and one terminal event, the pump is running only
\* while the terminated flag is false, and a run that left the pump has it set.
EventuallyDone ==
  /\ <>(pc = "Done")
  /\ [](Len(out) <= 3)
  /\ [](pc \in {"PumpRead", "PumpBatch"} => ~intakeTerminated)
  /\ []((pc = "Done" /\ streaming /\ fetchResult = "ok") => intakeTerminated)

PumpLoopedThenDone ==
  /\ pc = "Done" /\ streaming /\ intakeTerminated
  /\ chunkReads >= 3
  /\ parseCalls >= 2

\* C18: the 'received event after termination' branch is never taken: no
\* warning is ever counted, and whenever the for loop is about to take an item
\* the terminated flag is false.
AnomalyBranchUnreachable ==
  /\ anomalies = 0
  /\ pc = "PumpBatch" => ~intakeTerminated

SecondItemCheckedUnterminated ==
  /\ pc = "PumpBatch"
  /\ demuxedItem # NoItem
  /\ batch # << >>
  /\ chunkReads >= 2
  /\ ~intakeTerminated

\* C19: after a failed chunk read the run is Done; it ended silently (flag set,
\* no terminal event) exactly when the failure was ResponseAborted, and with
\* error(dispatch-read) as its last event otherwise, cancelled signal or not.
OnlyResponseAbortedIsSilent ==
  lastRead \in ReadErrorNames =>
    /\ pc = "Done"
    /\ intakeTerminated
    /\ IF lastRead = "ResponseAborted"
         THEN Terminals(out) = 0
         ELSE Terminals(out) = 1 /\ Last(out) = ErrEv("dispatch-read")

CancelledReadReportedAsError ==
  /\ abortedAtRead
  /\ lastRead = "AbortError"
  /\ Last(out) = ErrEv("dispatch-read")

OnlyStreamingTerminations ==
  \A i \in DOMAIN out :
    IsTermination(out[i]) => (streaming /\ out[i].a \in {"dispatch-close", "event-done"})

\* C20 as stated: every termination event carries dispatch-close or event-done
\* and belongs to a streaming run; a non-streaming run that emitted a terminal
\* event had its body read or its parse fail.
TerminationCausesAndNonStreamingTerminals ==
  /\ OnlyStreamingTerminations
  /\ (~streaming /\ Terminals(out) >= 1) => (bodyResult = "fail" \/ parseResult = "fail")

\* C20 as amended: every termination event carries dispatch-close or event-done
\* and belongs to a streaming run; a non-streaming run that emitted a terminal
\* event emitted the error of the stage that failed: prepare, fetch, read or parse.
TerminationCausesAndNonStreamingErrors ==
  /\ OnlyStreamingTerminations
  /\ (~streaming /\ Terminals(out) >= 1) =>
       /\ Terminals(out) = 1
       /\ \/ dispatch = "failed" /\ Last(out) = ErrEv("dispatch-prepare")
          \/ fetchResult \in FetchFailures /\ Last(out) = ErrEv("dispatch-fetch")
          \/ bodyResult = "fail" /\ Last(out) = ErrEv("dispatch-read")
          \/ parseResult = "fail" /\ Last(out) = ErrEv("dispatch-parse")

NonStreamingRunEndedByPrepareError ==
  /\ ~streaming /\ pc = "Done"
  /\ dispatch = "failed"
  /\ Terminals(out) = 1

====
